---- MODULE Spec2Model ----
(***************************************************************************)
(* A model of advanced-vector/vector.h: RawMemory<T>, a block of raw       *)
(* memory, and Vector<T>, the growable array built on it.                  *)
(*                                                                         *)
(* The heap is a set of blocks; a block is a sequence of slots, each slot  *)
(* either raw (no constructed element) or holding an element value.  A     *)
(* handler of vector.h is one action: it runs the handler's statements in  *)
(* order on a context (heap, error log, fault counter), including the      *)
(* unwinding when an allocation or an element operation throws.            *)
(***************************************************************************)
EXTENDS Integers, Sequences, FiniteSets, TLC

\* ------------------------------------------------------------------ bounds
\* Largest capacity a vector reaches in the one-vector specification.
MaxCap == 4
\* Largest capacity a vector reaches in the two-vector specification.
MaxCapTwo == 2
\* Element values the caller passes are 1..MaxVal in the one-vector
\* specification and 1..MaxValTwo in the two-vector one (T() has value 0).
MaxVal == 2
MaxValTwo == 1
\* Number of blocks the allocator can hand out at the same time.
NumBlocks == 3
\* Largest capacity of a stand-alone RawMemory object.
MaxRawCap == 2
\* Number of calls that throw in one behaviour.
MaxThrows == 1
\* Largest capacity a vector reaches in the specification of runs of appends.
MaxCapRun == 8

\* ------------------------------------------------------------ slot values
\* A slot of raw memory that holds no constructed element.
Raw == -1
\* The value of a value-initialised element, T().
DefaultValue == 0
\* The value an element is left with after it was moved from.
MovedFrom == -2

Values == 1..MaxVal
ValuesTwo == 1..MaxValTwo
Blocks == 1..NumBlocks
VecIds == {"a", "b"}
RawIds == {"r", "s"}
\* nullptr
Null == 0
\* An argument that refers to element i of the vector the call runs on
\* (v.PushBack(v[i]), v.Insert(pos, v[i])) is RefBase + i; an argument below
\* RefBase is a value of its own.
RefBase == 100
\* last.ref of a call whose argument refers to no element of the vector.
NoRef == -1

\* The element types the template is instantiated with, by the two traits
\* the code asks for (is_nothrow_move_constructible_v, is_copy_constructible_v):
\*   "nothrow_move": move construction cannot throw (copy construction may);
\*   "copyable":     move construction may throw, the type is copyable;
\*   "move_only":    move construction may throw, the type is not copyable.
Modes == {"nothrow_move", "copyable", "move_only"}

\* Fault positions: the k-th element operation of a call that may throw does
\* throw; 0 means none throws.  No call has more than MaxCap such operations,
\* and every action bounds the position by the number its call has.
MaxFault == MaxCap

VARIABLES
    mode,      \* the element type T, as one of Modes
    heap,      \* [blk: state of every block, mem: slots of every block]
    vecs,      \* Vector objects: [alive, buf, cap, size] (data_.buffer_, data_.capacity_, size_)
    raws,      \* stand-alone RawMemory objects: [alive, buf, cap]
    capLimit,  \* exploration bound on the capacity of each vector
    errs,      \* log of memory errors that happened so far
    crashed,   \* undefined behaviour ended the process
    abs,       \* per vector, the abstract sequence the calls so far describe
    throws,    \* number of calls that have thrown so far
    last,      \* the last call: [op, v, o, arg, ex, ret, ref]: the operation, the
               \* object it ran on, the other object, the index or number passed,
               \* the exception, the position returned, the element referred to
    hist       \* what a run of appends did so far, kept where hist.on is set:
               \* the last Reserve and the appends since, the appends since
               \* the vector was empty and the elements they transferred

vars == <<mode, heap, vecs, raws, capLimit, errs, crashed, abs, throws, last, hist>>

\* No call has thrown so far.
clean == throws = 0

\* ----------------------------------------------------------------- context
\* The state a handler runs on: the heap, the error log, whether undefined
\* behaviour happened in this call, whether operator new fails, the fault
\* counter of the element operations, the exception in flight ("none",
\* "alloc", "elem"), the value of the last expression, and the number of
\* elements copy- or move-constructed from an element so far in the call.
Ctx(oom, f) == [blk |-> heap.blk, mem |-> heap.mem, errs |-> errs, ub |-> FALSE, oom |-> oom, f |-> f, ex |-> "none", ret |-> Null, moves |-> 0]

Throws(c) == c.f = 1
Pass(c) == [c EXCEPT !.f = IF @ > 1 THEN @ - 1 ELSE 0]
Fail(c, kind) == [c EXCEPT !.f = 0, !.ex = kind]
Log(c, e) == [c EXCEPT !.errs = @ \cup {e}]
LogUB(c, e) == [c EXCEPT !.errs = @ \cup {e}, !.ub = TRUE]

Min(S) == CHOOSE x \in S : \A y \in S : x <= y
Max2(x, y) == IF x >= y THEN x ELSE y

\* --------------------------------------------------------------- allocator
FreeBlocks(c) == {b \in Blocks : c.blk[b] = "free"}

\* RawMemory::Allocate: n = 0 gives nullptr without calling operator new;
\* operator new throws std::bad_alloc when it cannot satisfy the request.
Allocate(c, n) ==
    IF n = 0 THEN [c EXCEPT !.ret = Null]
    ELSE IF c.oom \/ FreeBlocks(c) = {} THEN Fail(c, "alloc")
    ELSE LET b == Min(FreeBlocks(c))
         IN [c EXCEPT !.blk[b] = "alloc", !.mem[b] = [i \in 1..n |-> Raw], !.ret = b]

\* operator delete applied to a block's base address.  A block that still
\* holds constructed elements loses them without their destructors running.
ReleaseBlock(c, p) ==
    LET c1 == IF \E i \in DOMAIN c.mem[p] : c.mem[p][i] # Raw THEN Log(c, "element_leaked") ELSE c
        c2 == IF c.blk[p] # "alloc" THEN LogUB(c1, "double_release") ELSE c1
    IN [c2 EXCEPT !.blk[p] = "free", !.mem[p] = << >>]

\* RawMemory::Deallocate: operator delete(buf); deleting nullptr does nothing.
Deallocate(c, p) == IF p = Null THEN c ELSE ReleaseBlock(c, p)

\* operator delete applied to buf + off, as in the catch block of Emplace.
\* Off the base address it is undefined behaviour; on the base address it
\* releases a block its RawMemory still points to: the block is kept as a
\* "zombie", released but still referenced, which the allocator does not reuse.
DeleteAt(c, p, off) ==
    IF off # 0 THEN LogUB(c, "interior_release")
    ELSE IF c.blk[p] # "alloc" THEN LogUB(c, "double_release")
    ELSE [Log(c, "released_while_owned") EXCEPT !.blk[p] = "zombie"]

\* ------------------------------------------------------ element operations
Get(c, b, i) == c.mem[b][i + 1]

\* Every access to a slot of a block that was released is a use after free.
Touch(c, b) == IF c.blk[b] # "alloc" THEN LogUB(c, "use_after_release") ELSE c

Put(c, b, i, x) == [Touch(c, b) EXCEPT !.mem[b][i + 1] = x]

\* Placement new of an element with value x in slot i of block b.  A slot
\* that already holds an element loses it without its destructor running.
Construct(c, b, i, x, canThrow) ==
    IF canThrow /\ Throws(c) THEN Fail(c, "elem")
    ELSE LET c1 == IF canThrow THEN Pass(c) ELSE c
             c2 == IF Get(c, b, i) # Raw THEN Log(c1, "element_leaked") ELSE c1
         IN Put(c2, b, i, x)

\* The value read from a slot; reading a raw slot is undefined behaviour.
ReadLog(c, b, i) == IF Get(c, b, i) = Raw THEN LogUB(c, "read_raw") ELSE c

\* One more element was constructed from an element.
Counted(c) == IF c.ex # "none" THEN c ELSE [c EXCEPT !.moves = @ + 1]

\* T(const T&)
CopyConstruct(c, sb, si, db, di) == Counted(Construct(ReadLog(c, sb, si), db, di, Get(c, sb, si), TRUE))

\* T(T&&): cannot throw when T is nothrow move constructible; the source is
\* left moved-from.
MoveCanThrow == mode # "nothrow_move"

MoveConstruct(c, sb, si, db, di) ==
    LET c1 == Counted(Construct(ReadLog(c, sb, si), db, di, Get(c, sb, si), MoveCanThrow))
    IN IF c1.ex # "none" THEN c1 ELSE Put(c1, sb, si, MovedFrom)

\* T(): value initialisation.
ValueConstruct(c, b, i) == Construct(c, b, i, DefaultValue, TRUE)

\* operator=(const T&) / operator=(T&&) onto a slot that holds an element.
Assign(c, b, i, x) ==
    IF Throws(c) THEN Fail(c, "elem")
    ELSE LET c1 == IF Get(c, b, i) = Raw THEN LogUB(Pass(c), "assign_to_raw") ELSE Pass(c)
         IN Put(c1, b, i, x)

CopyAssign(c, sb, si, db, di) == Assign(ReadLog(c, sb, si), db, di, Get(c, sb, si))

MoveAssign(c, sb, si, db, di) ==
    LET c1 == Assign(ReadLog(c, sb, si), db, di, Get(c, sb, si))
    IN IF c1.ex # "none" \/ (sb = db /\ si = di) THEN c1 ELSE Put(c1, sb, si, MovedFrom)

\* std::destroy_at: the destructor does not throw.
DestroyAt(c, b, i) ==
    LET c1 == IF Get(c, b, i) = Raw THEN LogUB(c, "destroy_raw") ELSE c
    IN Put(c1, b, i, Raw)

\* std::destroy_n(p + i, n)
RECURSIVE DestroyN(_, _, _, _)
DestroyN(c, b, i, n) ==
    IF n <= 0 THEN c ELSE DestroyN(DestroyAt(c, b, i), b, i + 1, n - 1)

\* std::uninitialized_copy_n(src + si, n, dst + di): if a copy throws, the
\* elements constructed so far are destroyed and the exception goes on.
RECURSIVE UninitCopyFrom(_, _, _, _, _, _, _)
UninitCopyFrom(c, sb, si, db, di, k, n) ==
    IF k >= n THEN c
    ELSE LET c1 == CopyConstruct(c, sb, si + k, db, di + k)
         IN IF c1.ex # "none" THEN DestroyN(c1, db, di, k)
            ELSE UninitCopyFrom(c1, sb, si, db, di, k + 1, n)

UninitializedCopyN(c, sb, si, n, db, di) == UninitCopyFrom(c, sb, si, db, di, 0, n)

\* std::uninitialized_move_n: as the copy, but the sources already moved
\* stay moved-from when a later move throws.
RECURSIVE UninitMoveFrom(_, _, _, _, _, _, _)
UninitMoveFrom(c, sb, si, db, di, k, n) ==
    IF k >= n THEN c
    ELSE LET c1 == MoveConstruct(c, sb, si + k, db, di + k)
         IN IF c1.ex # "none" THEN DestroyN(c1, db, di, k)
            ELSE UninitMoveFrom(c1, sb, si, db, di, k + 1, n)

UninitializedMoveN(c, sb, si, n, db, di) == UninitMoveFrom(c, sb, si, db, di, 0, n)

\* std::uninitialized_value_construct_n(p + i, n)
RECURSIVE UninitValueFrom(_, _, _, _, _)
UninitValueFrom(c, b, i, k, n) ==
    IF k >= n THEN c
    ELSE LET c1 == ValueConstruct(c, b, i + k)
         IN IF c1.ex # "none" THEN DestroyN(c1, b, i, k)
            ELSE UninitValueFrom(c1, b, i, k + 1, n)

UninitializedValueConstructN(c, b, i, n) == UninitValueFrom(c, b, i, 0, n)

\* std::copy(src + si, src + si + n, dst + di): copy assignment, first to last.
RECURSIVE StdCopy(_, _, _, _, _, _)
StdCopy(c, sb, si, n, db, di) ==
    IF n <= 0 THEN c
    ELSE LET c1 == CopyAssign(c, sb, si, db, di)
         IN IF c1.ex # "none" THEN c1 ELSE StdCopy(c1, sb, si + 1, n - 1, db, di + 1)

\* std::move(b + first, b + last, b + dest): move assignment, first to last.
RECURSIVE StdMove(_, _, _, _, _)
StdMove(c, b, first, lst, dest) ==
    IF first >= lst THEN c
    ELSE LET c1 == MoveAssign(c, b, first, b, dest)
         IN IF c1.ex # "none" THEN c1 ELSE StdMove(c1, b, first + 1, lst, dest + 1)

\* Mutant: the shift runs first to last, so that it overwrites its own sources.
StdMoveBackward_Forward(c, b, first, lst, dend) == StdMove(c, b, first, lst, dend - (lst - first))

\* std::move_backward(b + first, b + last, b + dend): move assignment, last
\* to first, the last element going to dend - 1.
RECURSIVE StdMoveBackward(_, _, _, _, _)
StdMoveBackward(c, b, first, lst, dend) ==
    IF first >= lst THEN c
    ELSE LET c1 == MoveAssign(c, b, lst - 1, b, dend - 1)
         IN IF c1.ex # "none" THEN c1 ELSE StdMoveBackward(c1, b, first, lst - 1, dend - 1)

\* --------------------------------------------------------------- RawMemory
\* A RawMemory object is [buf, cap]: buffer_ and capacity_.
NullMemory == [buf |-> Null, cap |-> 0]

\* RawMemory(size_t capacity): buffer_(Allocate(capacity)), capacity_(capacity).
\* The object is returned in ret.
RawMemory_New(c, n) ==
    LET c1 == Allocate(c, n)
    IN IF c1.ex # "none" THEN c1 ELSE [c1 EXCEPT !.ret = [buf |-> c1.ret, cap |-> n]]

\* ~RawMemory(): Deallocate(buffer_).
RawMemory_Destroy(c, m) == Deallocate(c, m.buf)

\* RawMemory(RawMemory&& other): takes other's fields, leaves it null.
RawMemory_MoveCtor(other) == [this |-> [buf |-> other.buf, cap |-> other.cap], other |-> NullMemory]

\* Mutant: the source's buffer is set null, its capacity is kept.
RawMemory_MoveAssign_KeepsCapacity(this, rhs, same) ==
    IF same THEN [this |-> this, other |-> this]
    ELSE [this |-> [buf |-> rhs.buf, cap |-> rhs.cap], other |-> [buf |-> Null, cap |-> rhs.cap]]

\* operator=(RawMemory&& rhs): on this != &rhs the fields are overwritten by
\* rhs's and rhs is set null; the block held before is not deallocated.
RawMemory_MoveAssign(this, rhs, same) ==
    IF same THEN [this |-> this, other |-> this]
    ELSE [this |-> [buf |-> rhs.buf, cap |-> rhs.cap], other |-> NullMemory]

\* Mutant: the buffers are exchanged, the capacities are not.
RawMemory_Swap_BufferOnly(this, other) ==
    [this |-> [buf |-> other.buf, cap |-> this.cap], other |-> [buf |-> this.buf, cap |-> other.cap]]

\* RawMemory::Swap: std::swap of buffer_ and of capacity_.
RawMemory_Swap(this, other) ==
    [this |-> [buf |-> other.buf, cap |-> other.cap], other |-> [buf |-> this.buf, cap |-> this.cap]]

\* ------------------------------------------------------------------ Vector
\* A Vector object is [alive, data, size]: data_ (a RawMemory) and size_.
EmptyVector == [alive |-> TRUE, data |-> NullMemory, size |-> 0]
NoVector == [alive |-> FALSE, data |-> NullMemory, size |-> 0]

\* What a handler returns: the context and the Vector it ran on.
R(c, V) == [c |-> c, v |-> V]

\* return begin() + p: the position returned, as an offset from begin().
Returning(c, p) == [c EXCEPT !.ret = p]

\* The value of an argument at the moment it is read: an argument that
\* refers to an element of the vector has the value the element has then.
IsRef(x) == x >= RefBase
RefTo(i) == RefBase + i
Deref(c, V, x) == IF IsRef(x) THEN Get(c, V.data.buf, x - RefBase) ELSE x

\* Mutant: the elements are always moved into the new storage.
TransferByMove_Always == TRUE

\* if constexpr (is_nothrow_move_constructible_v<T> || !is_copy_constructible_v<T>)
TransferByMove == mode \in {"nothrow_move", "move_only"}

Transfer(c, sb, si, n, db, di) ==
    IF TransferByMove THEN UninitializedMoveN(c, sb, si, n, db, di)
    ELSE UninitializedCopyN(c, sb, si, n, db, di)

\* destroy_n(data_.GetAddress(), size_); data_.Swap(new_data); and new_data's
\* destructor at the end of the scope, which releases the old block.
Commit(c, V, nd, newSize) ==
    LET c1 == DestroyN(c, V.data.buf, 0, V.size)
        sw == RawMemory_Swap(V.data, nd)
    IN R(RawMemory_Destroy(c1, sw.other), [V EXCEPT !.data = sw.this, !.size = newSize])

\* Mutant: Reserve does nothing.
Vector_Reserve_Nothing(c, V, n) == R(c, V)

\* Mutant: when the transfer throws, the new storage is not released.
Vector_Reserve_KeepsNewData(c, V, n) ==
    IF n <= V.data.cap THEN R(c, V)
    ELSE LET c1 == RawMemory_New(c, n)
         IN IF c1.ex # "none" THEN R(c1, V)
            ELSE LET nd == c1.ret
                     c2 == Transfer(c1, V.data.buf, 0, V.size, nd.buf, 0)
                 IN IF c2.ex # "none" THEN R(c2, V)
                    ELSE Commit(c2, V, nd, V.size)

\* Vector::Reserve
Vector_Reserve(c, V, n) ==
    IF n <= V.data.cap THEN R(c, V)
    ELSE LET c1 == RawMemory_New(c, n)
         IN IF c1.ex # "none" THEN R(c1, V)
            ELSE LET nd == c1.ret
                     c2 == Transfer(c1, V.data.buf, 0, V.size, nd.buf, 0)
                 IN IF c2.ex # "none" THEN R(RawMemory_Destroy(c2, nd), V)
                    ELSE Commit(c2, V, nd, V.size)

\* Mutant: a growing Resize reserves exactly the new size.
Vector_Resize_Exact(c, V, n) ==
    IF n < V.size THEN R(DestroyN(c, V.data.buf, n, V.size - n), [V EXCEPT !.size = n])
    ELSE LET r1 == IF n > V.data.cap THEN Vector_Reserve(c, V, n) ELSE R(c, V)
         IN IF r1.c.ex # "none" THEN r1
            ELSE LET c2 == UninitializedValueConstructN(r1.c, r1.v.data.buf, r1.v.size, n - r1.v.size)
                 IN IF c2.ex # "none" THEN R(c2, r1.v) ELSE R(c2, [r1.v EXCEPT !.size = n])

\* Vector::Resize
Vector_Resize(c, V, n) ==
    IF n < V.size THEN R(DestroyN(c, V.data.buf, n, V.size - n), [V EXCEPT !.size = n])
    ELSE LET r1 == IF n > V.data.cap THEN Vector_Reserve(c, V, Max2(V.data.cap * 2, n)) ELSE R(c, V)
         IN IF r1.c.ex # "none" THEN r1
            ELSE LET c2 == UninitializedValueConstructN(r1.c, r1.v.data.buf, r1.v.size, n - r1.v.size)
                 IN IF c2.ex # "none" THEN R(c2, r1.v) ELSE R(c2, [r1.v EXCEPT !.size = n])

\* Mutant: the new storage has room for one element more.
NewCapacity_PlusOne(size) == size + 1

\* Mutant: the capacity is tripled.
NewCapacity_Triple(size) == IF size = 0 THEN 1 ELSE size * 3

\* size_ == 0 ? 1 : size_ * 2
NewCapacity(size) == IF size = 0 THEN 1 ELSE size * 2

\* Mutant: the old elements are destroyed before the new storage is allocated.
Vector_PushBack_DestroysFirst(c, V, x) ==
    IF V.data.cap <= V.size
    THEN LET c0 == DestroyN(c, V.data.buf, 0, V.size)
             c1 == RawMemory_New(c0, NewCapacity(V.size))
         IN IF c1.ex # "none" THEN R(c1, [V EXCEPT !.size = 0])
            ELSE LET c2 == Construct(c1, c1.ret.buf, 0, x, TRUE)
                 IN IF c2.ex # "none" THEN R(RawMemory_Destroy(c2, c1.ret), [V EXCEPT !.size = 0])
                    ELSE Commit(c2, [V EXCEPT !.size = 0], c1.ret, 1)
    ELSE LET c1 == Construct(c, V.data.buf, V.size, x, TRUE)
         IN IF c1.ex # "none" THEN R(c1, V) ELSE R(c1, [V EXCEPT !.size = @ + 1])

\* Vector::PushBack
Vector_PushBack(c, V, x) ==
    IF V.data.cap <= V.size
    THEN LET c1 == RawMemory_New(c, NewCapacity(V.size))
         IN IF c1.ex # "none" THEN R(c1, V)
            ELSE LET nd == c1.ret
                     c2 == Construct(c1, nd.buf, V.size, Deref(c1, V, x), TRUE)
                     c3 == Transfer(c2, V.data.buf, 0, V.size, nd.buf, 0)
                 IN IF c2.ex # "none" THEN R(RawMemory_Destroy(c2, nd), V)
                    ELSE IF c3.ex # "none" THEN R(RawMemory_Destroy(c3, nd), V)
                    ELSE Commit(c3, V, nd, V.size + 1)
    ELSE LET c1 == Construct(c, V.data.buf, V.size, Deref(c, V, x), TRUE)
         IN IF c1.ex # "none" THEN R(c1, V) ELSE R(c1, [V EXCEPT !.size = @ + 1])

\* Vector::EmplaceBack
Vector_EmplaceBack(c, V, x) ==
    IF V.data.cap <= V.size
    THEN LET c1 == RawMemory_New(c, NewCapacity(V.size))
         IN IF c1.ex # "none" THEN R(c1, V)
            ELSE LET nd == c1.ret
                     c2 == Construct(c1, nd.buf, V.size, Deref(c1, V, x), TRUE)
                     c3 == Transfer(c2, V.data.buf, 0, V.size, nd.buf, 0)
                 IN IF c2.ex # "none" THEN R(RawMemory_Destroy(c2, nd), V)
                    ELSE IF c3.ex # "none" THEN R(RawMemory_Destroy(c3, nd), V)
                    ELSE Commit(c3, V, nd, V.size + 1)
    ELSE LET c1 == Construct(c, V.data.buf, V.size, Deref(c, V, x), TRUE)
         IN IF c1.ex # "none" THEN R(c1, V) ELSE R(c1, [V EXCEPT !.size = @ + 1])

\* T new_s(std::forward<Args>(args)...): a temporary, outside the heap.
ConstructTemp(c) == IF Throws(c) THEN Fail(c, "elem") ELSE Pass(c)

\* Mutant: the argument is read when it is assigned, after the shift.
EmplaceInPlace_ReadsLate(c, V, indx, x) ==
    IF indx # V.size
    THEN LET c1 == ConstructTemp(c)
             c2 == IF c1.ex # "none" THEN c1 ELSE MoveConstruct(c1, V.data.buf, V.size - 1, V.data.buf, V.size)
             c3 == IF c2.ex # "none" THEN c2 ELSE StdMoveBackward(c2, V.data.buf, indx, V.size - 1, V.size)
         IN IF c3.ex # "none" THEN c3 ELSE Assign(c3, V.data.buf, indx, Deref(c3, V, x))
    ELSE Construct(c, V.data.buf, V.size, Deref(c, V, x), TRUE)

\* The try block of Emplace's in-place path.  The temporary new_s takes the
\* argument's value before any element is moved.
EmplaceInPlace(c, V, indx, x) ==
    IF indx # V.size
    THEN LET new_s == Deref(c, V, x)
             c1 == ConstructTemp(c)
             c2 == IF c1.ex # "none" THEN c1 ELSE MoveConstruct(c1, V.data.buf, V.size - 1, V.data.buf, V.size)
             c3 == IF c2.ex # "none" THEN c2 ELSE StdMoveBackward(c2, V.data.buf, indx, V.size - 1, V.size)
         IN IF c3.ex # "none" THEN c3 ELSE Assign(c3, V.data.buf, indx, new_s)
    ELSE Construct(c, V.data.buf, V.size, Deref(c, V, x), TRUE)

\* catch (...) { operator delete (end()); throw; }
EmplaceCatch(c, V) == DeleteAt(c, V.data.buf, V.size)

\* Vector::Emplace, and Insert, which forwards to it.
Vector_Emplace(c, V, indx, x) ==
    IF V.data.cap <= V.size
    THEN LET c1 == RawMemory_New(c, NewCapacity(V.size))
         IN IF c1.ex # "none" THEN R(c1, V)
            ELSE LET nd == c1.ret
                     c2 == Construct(c1, nd.buf, indx, Deref(c1, V, x), TRUE)
                     c3 == Transfer(c2, V.data.buf, 0, indx, nd.buf, 0)
                     c4 == Transfer(c3, V.data.buf, indx, V.size - indx, nd.buf, indx + 1)
                 IN IF c2.ex # "none" THEN R(RawMemory_Destroy(c2, nd), V)
                    ELSE IF c3.ex # "none" THEN R(RawMemory_Destroy(c3, nd), V)
                    ELSE IF c4.ex # "none" THEN R(RawMemory_Destroy(c4, nd), V)
                    ELSE LET r5 == Commit(c4, V, nd, V.size + 1)
                         IN R(Returning(r5.c, indx), r5.v)
    ELSE LET c1 == EmplaceInPlace(c, V, indx, x)
         IN IF c1.ex # "none" THEN R(EmplaceCatch(c1, V), V)
            ELSE R(Returning(c1, indx), [V EXCEPT !.size = @ + 1])

\* Mutant: the last element is destroyed, nothing is shifted.
Vector_Erase_NoShift(c, V, indx) ==
    R(Returning(DestroyAt(c, V.data.buf, V.size - 1), indx), [V EXCEPT !.size = @ - 1])

\* Vector::Erase
Vector_Erase(c, V, indx) ==
    LET c1 == StdMove(c, V.data.buf, indx + 1, V.size, indx)
    IN IF c1.ex # "none" THEN R(c1, V)
       ELSE R(Returning(DestroyAt(c1, V.data.buf, V.size - 1), indx), [V EXCEPT !.size = @ - 1])

\* Vector::PopBack
Vector_PopBack(c, V) == R(DestroyAt(c, V.data.buf, V.size - 1), [V EXCEPT !.size = @ - 1])

\* ~Vector(): destroy_n(data_.GetAddress(), size_), then data_'s destructor.
Vector_Destroy(c, V) == RawMemory_Destroy(DestroyN(c, V.data.buf, 0, V.size), V.data)

\* Vector(size_t size)
Vector_Sized(c, n) ==
    LET c1 == RawMemory_New(c, n)
    IN IF c1.ex # "none" THEN R(c1, NoVector)
       ELSE LET c2 == UninitializedValueConstructN(c1, c1.ret.buf, 0, n)
            IN IF c2.ex # "none" THEN R(RawMemory_Destroy(c2, c1.ret), NoVector)
               ELSE R(c2, [alive |-> TRUE, data |-> c1.ret, size |-> n])

\* v[index] = x: operator[] gives data_[index], which T's assignment writes.
Vector_SetAt(c, V, index, x) == R(Assign(c, V.data.buf, index, x), V)

\* Mutant: the copy takes the other's storage instead of copying into its own.
Vector_Copy_Shallow(c, O) == R(c, [alive |-> TRUE, data |-> O.data, size |-> O.size])

\* Vector(const Vector& other)
Vector_Copy(c, O) ==
    LET c1 == RawMemory_New(c, O.size)
    IN IF c1.ex # "none" THEN R(c1, NoVector)
       ELSE LET c2 == UninitializedCopyN(c1, O.data.buf, 0, O.size, c1.ret.buf, 0)
            IN IF c2.ex # "none" THEN R(RawMemory_Destroy(c2, c1.ret), NoVector)
               ELSE R(c2, [alive |-> TRUE, data |-> c1.ret, size |-> O.size])

\* Vector(Vector&& other): data_(std::move(other.data_)), size_(std::exchange(other.size_, 0))
Vector_Move(O) ==
    LET mv == RawMemory_MoveCtor(O.data)
    IN [this |-> [alive |-> TRUE, data |-> mv.this, size |-> O.size], other |-> [O EXCEPT !.data = mv.other, !.size = 0]]

\* Mutant: this takes the other's storage and size, the other is left empty.
Vector_Swap_Steals(V, O) ==
    [this |-> [V EXCEPT !.data = O.data, !.size = O.size], other |-> [O EXCEPT !.data = NullMemory, !.size = 0]]

\* Vector::Swap: data_.Swap(other.data_), std::swap(size_, other.size_)
Vector_Swap(V, O) ==
    LET sw == RawMemory_Swap(V.data, O.data)
    IN [this |-> [V EXCEPT !.data = sw.this, !.size = O.size], other |-> [O EXCEPT !.data = sw.other, !.size = V.size]]

\* Mutant: copy assignment always builds a copy and swaps it in.
Vector_CopyAssign_AlwaysCopies(c, V, O) ==
    LET r1 == Vector_Copy(c, O)
    IN IF r1.c.ex # "none" THEN R(r1.c, V)
       ELSE LET sw == Vector_Swap(V, r1.v)
            IN R(Vector_Destroy(r1.c, sw.other), sw.this)

\* operator=(const Vector& other) for this != &other.
Vector_CopyAssign(c, V, O) ==
    IF O.size <= V.data.cap
    THEN IF V.size <= O.size
         THEN LET c1 == StdCopy(c, O.data.buf, 0, V.size, V.data.buf, 0)
                  c2 == IF c1.ex # "none" THEN c1 ELSE UninitializedCopyN(c1, O.data.buf, V.size, O.size - V.size, V.data.buf, V.size)
              IN IF c2.ex # "none" THEN R(c2, V) ELSE R(c2, [V EXCEPT !.size = O.size])
         ELSE LET c1 == StdCopy(c, O.data.buf, 0, O.size, V.data.buf, 0)
              IN IF c1.ex # "none" THEN R(c1, V)
                 ELSE R(DestroyN(c1, V.data.buf, O.size, V.size - O.size), [V EXCEPT !.size = O.size])
    ELSE LET r1 == Vector_Copy(c, O)
         IN IF r1.c.ex # "none" THEN R(r1.c, V)
            ELSE LET sw == Vector_Swap(V, r1.v)
                 IN R(Vector_Destroy(r1.c, sw.other), sw.this)

\* ------------------------------------------------------------ observation
\* The slots [from, to) of a vector's block.
Slots(V, from, to) == [i \in 1..(to - from) |-> heap.mem[V.data.buf][from + i]]

\* The live range [0, size) of a vector.
Live(V) == Slots(V, 0, V.size)

\* Abstract sequence operations.
InsertAt(q, i, x) == SubSeq(q, 1, i) \o <<x>> \o SubSeq(q, i + 1, Len(q))
RemoveAt(q, i) == SubSeq(q, 1, i) \o SubSeq(q, i + 2, Len(q))
ResizeTo(q, n) == [i \in 1..n |-> IF i <= Len(q) THEN q[i] ELSE DefaultValue]

NoAbs == [w \in VecIds |-> << >>]

\* ----------------------------------------------------------------- history
\* The history before any call; it is kept only where on is set.
NoHist(on) ==
    [on |-> on,
     rsv |-> FALSE, n |-> 0, sz |-> 0, cap |-> 0, blk |-> Null, k |-> 0,
     run |-> FALSE, appends |-> 0, moved |-> 0]

AppendOps == {"PushBack", "EmplaceBack"}

\* The history after call op(arg) on v with result r.  A successful Reserve(n)
\* records n, the size it found and the capacity and block it left, and k
\* counts the appends that follow it without another call in between.  A
\* successful append to an empty vector starts a run; appends counts the
\* run's appends and moved the elements they copied or moved to new storage.
Track(op, v, arg, r) ==
    IF ~hist.on THEN hist
    ELSE IF r.c.ex # "none" THEN NoHist(TRUE)
    ELSE IF op = "Reserve"
    THEN [NoHist(TRUE) EXCEPT !.rsv = TRUE, !.n = arg, !.sz = vecs[v].size, !.cap = r.v.data.cap, !.blk = r.v.data.buf]
    ELSE IF op \in AppendOps
    THEN LET starts == vecs[v].size = 0
             runs == starts \/ hist.run
         IN [hist EXCEPT !.k = IF hist.rsv THEN @ + 1 ELSE 0,
                         !.run = runs,
                         !.appends = IF starts THEN 1 ELSE IF runs THEN @ + 1 ELSE 0,
                         !.moved = IF starts THEN r.c.moves ELSE IF runs THEN @ + r.c.moves ELSE 0]
    ELSE NoHist(TRUE)

\* The calls that return a position.
PositionOps == {"Erase", "Emplace"}

\* ----------------------------------------------------------------- actions
\* The end of a call on vector v: the handler's result r becomes the state.
\* Undefined behaviour in the call either ends the process or goes unnoticed.
FinishCall(op, v, o, arg, ref, r, newAbs) ==
    /\ heap' = [blk |-> r.c.blk, mem |-> r.c.mem]
    /\ errs' = r.c.errs
    /\ crashed' \in (IF r.c.ub THEN BOOLEAN ELSE {FALSE})
    /\ vecs' = [vecs EXCEPT ![v] = r.v]
    /\ r.c.ex # "none" => throws < MaxThrows
    /\ throws' = IF r.c.ex = "none" THEN throws ELSE throws + 1
    /\ abs' = IF throws' = 0 THEN [abs EXCEPT ![v] = newAbs] ELSE NoAbs
    /\ last' = [op |-> op, v |-> v, o |-> o, arg |-> arg, ex |-> r.c.ex, ref |-> ref,
                ret |-> IF r.c.ex = "none" /\ op \in PositionOps THEN r.c.ret ELSE 0]
    /\ hist' = Track(op, v, arg, r)
    /\ UNCHANGED <<mode, raws, capLimit>>

\* The end of a call whose argument refers to no element of the vector.
Finish(op, v, o, arg, r, newAbs) == FinishCall(op, v, o, arg, NoRef, r, newAbs)

\* The end of a call that cannot throw and changes vectors v and o.
Finish2(op, v, o, p) ==
    /\ vecs' = [w \in VecIds |-> IF w = v THEN p.this ELSE IF w = o THEN p.other ELSE vecs[w]]
    /\ abs' = IF clean THEN [w \in VecIds |-> IF w = v THEN abs[o] ELSE IF w = o THEN (IF op = "MoveCtor" THEN << >> ELSE abs[v]) ELSE abs[w]] ELSE NoAbs
    /\ last' = [op |-> op, v |-> v, o |-> o, arg |-> 0, ex |-> "none", ref |-> NoRef, ret |-> 0]
    /\ UNCHANGED <<mode, heap, raws, capLimit, errs, crashed, throws, hist>>

Usable(v) == ~crashed /\ vecs[v].alive

\* The faults given to one call: operator new fails, or the f-th throwing
\* element operation throws, f at most the number k the call can make.
OneFault(oom, f, k) == f <= k /\ ~(oom /\ f > 0)

\* Vector()
DefaultCtor(v) ==
    /\ ~crashed /\ ~vecs[v].alive
    /\ Finish("DefaultCtor", v, v, 0, R(Ctx(FALSE, 0), EmptyVector), << >>)

\* Vector(size_t size)
SizedCtor(v, n, oom, f) ==
    /\ ~crashed /\ ~vecs[v].alive
    /\ n <= capLimit[v]
    /\ OneFault(oom, f, n)
    /\ Finish("SizedCtor", v, v, n, Vector_Sized(Ctx(oom, f), n), ResizeTo(<< >>, n))

\* ~Vector()
Dtor(v) ==
    /\ Usable(v)
    /\ Finish("Dtor", v, v, 0, R(Vector_Destroy(Ctx(FALSE, 0), vecs[v]), NoVector), << >>)

Reserve(v, n, oom, f) ==
    /\ Usable(v)
    /\ n <= capLimit[v]
    /\ OneFault(oom, f, IF n <= vecs[v].data.cap THEN 0 ELSE vecs[v].size)
    /\ Finish("Reserve", v, v, n, Vector_Reserve(Ctx(oom, f), vecs[v], n), abs[v])

Resize(v, n, oom, f) ==
    /\ Usable(v)
    /\ n <= capLimit[v]
    /\ n > vecs[v].data.cap => Max2(vecs[v].data.cap * 2, n) <= capLimit[v]
    /\ OneFault(oom, f, IF n <= vecs[v].size THEN 0 ELSE n)
    /\ Finish("Resize", v, v, n, Vector_Resize(Ctx(oom, f), vecs[v], n), ResizeTo(abs[v], n))

\* The capacity a call that adds one element leaves.
CapacityAfterAdd(V) == IF V.data.cap <= V.size THEN NewCapacity(V.size) ELSE V.data.cap

PushBack(v, x, oom, f) ==
    /\ Usable(v)
    /\ CapacityAfterAdd(vecs[v]) <= capLimit[v]
    /\ OneFault(oom, f, vecs[v].size + 1)
    /\ Finish("PushBack", v, v, 0, Vector_PushBack(Ctx(oom, f), vecs[v], x), Append(abs[v], x))

EmplaceBack(v, x, oom, f) ==
    /\ Usable(v)
    /\ CapacityAfterAdd(vecs[v]) <= capLimit[v]
    /\ OneFault(oom, f, vecs[v].size + 1)
    /\ Finish("EmplaceBack", v, v, 0, Vector_EmplaceBack(Ctx(oom, f), vecs[v], x), Append(abs[v], x))

\* Emplace(pos, args...) and Insert(pos, item), with pos = begin() + indx.
Emplace(v, indx, x, oom, f) ==
    /\ Usable(v)
    /\ indx <= vecs[v].size
    /\ CapacityAfterAdd(vecs[v]) <= capLimit[v]
    /\ OneFault(oom, f, vecs[v].size + 2)
    /\ Finish("Emplace", v, v, indx, Vector_Emplace(Ctx(oom, f), vecs[v], indx, x), InsertAt(abs[v], indx, x))

\* v.PushBack(v[i]): the argument is a const reference to element i of v.
PushBackRef(v, i) ==
    /\ Usable(v) /\ clean
    /\ mode # "move_only"
    /\ i < vecs[v].size
    /\ CapacityAfterAdd(vecs[v]) <= capLimit[v]
    /\ FinishCall("PushBack", v, v, 0, i, Vector_PushBack(Ctx(FALSE, 0), vecs[v], RefTo(i)), Append(abs[v], abs[v][i + 1]))

\* v.Insert(v.begin() + indx, v[i]): Insert(pos, const T&) forwards to Emplace.
InsertRef(v, indx, i) ==
    /\ Usable(v) /\ clean
    /\ mode # "move_only"
    /\ indx <= vecs[v].size /\ i < vecs[v].size
    /\ CapacityAfterAdd(vecs[v]) <= capLimit[v]
    /\ FinishCall("Emplace", v, v, indx, i, Vector_Emplace(Ctx(FALSE, 0), vecs[v], indx, RefTo(i)), InsertAt(abs[v], indx, abs[v][i + 1]))

Erase(v, indx, f) ==
    /\ Usable(v)
    /\ indx < vecs[v].size
    /\ f <= vecs[v].size - indx - 1
    /\ Finish("Erase", v, v, indx, Vector_Erase(Ctx(FALSE, f), vecs[v], indx), RemoveAt(abs[v], indx))

PopBack(v) ==
    /\ Usable(v)
    /\ vecs[v].size > 0
    /\ Finish("PopBack", v, v, 0, Vector_PopBack(Ctx(FALSE, 0), vecs[v]), RemoveAt(abs[v], Len(abs[v]) - 1))

\* v[index] = x
SetAt(v, index, x, f) ==
    /\ Usable(v)
    /\ index < vecs[v].size
    /\ f <= 1
    /\ Finish("SetAt", v, v, index, Vector_SetAt(Ctx(FALSE, f), vecs[v], index, x), [abs[v] EXCEPT ![index + 1] = x])

\* Vector(const Vector& other): v is constructed as a copy of o.
CopyCtor(v, o, oom, f) ==
    /\ ~crashed /\ ~vecs[v].alive /\ vecs[o].alive
    /\ mode # "move_only"
    /\ vecs[o].size <= capLimit[v]
    /\ OneFault(oom, f, vecs[o].size)
    /\ Finish("CopyCtor", v, o, 0, Vector_Copy(Ctx(oom, f), vecs[o]), abs[o])

\* Vector(Vector&& other): v is constructed from o.
MoveCtor(v, o) ==
    /\ ~crashed /\ ~vecs[v].alive /\ vecs[o].alive
    /\ vecs[o].data.cap <= capLimit[v]
    /\ Finish2("MoveCtor", v, o, Vector_Move(vecs[o]))

\* v = o
CopyAssignment(v, o, oom, f) ==
    /\ Usable(v) /\ vecs[o].alive
    /\ mode # "move_only"
    /\ vecs[o].size <= capLimit[v]
    /\ OneFault(oom, f, IF v = o THEN 0 ELSE vecs[o].size)
    /\ Finish("CopyAssignment", v, o, 0, IF v = o THEN R(Ctx(oom, f), vecs[v]) ELSE Vector_CopyAssign(Ctx(oom, f), vecs[v], vecs[o]), abs[o])

\* Exchanged, both vectors stay within the capacities explored.
FitsSwapped(v, o) == vecs[v].data.cap <= capLimit[o] /\ vecs[o].data.cap <= capLimit[v]

\* v = std::move(o): Swap(other)
MoveAssignment(v, o) ==
    /\ Usable(v) /\ vecs[o].alive
    /\ FitsSwapped(v, o)
    /\ Finish2("MoveAssignment", v, o, Vector_Swap(vecs[v], vecs[o]))

\* v.Swap(o)
Swap(v, o) ==
    /\ Usable(v) /\ vecs[o].alive
    /\ FitsSwapped(v, o)
    /\ Finish2("Swap", v, o, Vector_Swap(vecs[v], vecs[o]))

\* ------------------------------------------- stand-alone RawMemory objects
FinishRaw(op, r, s, n, c, newRaws) ==
    /\ heap' = [blk |-> c.blk, mem |-> c.mem]
    /\ errs' = c.errs
    /\ crashed' \in (IF c.ub THEN BOOLEAN ELSE {FALSE})
    /\ raws' = newRaws
    /\ c.ex # "none" => throws < MaxThrows
    /\ throws' = IF c.ex = "none" THEN throws ELSE throws + 1
    /\ last' = [op |-> op, v |-> r, o |-> s, arg |-> n, ex |-> c.ex, ref |-> NoRef, ret |-> 0]
    /\ UNCHANGED <<mode, vecs, capLimit, abs, hist>>

AsRaw(m, alive) == [alive |-> alive, buf |-> m.buf, cap |-> m.cap]

\* RawMemory<T> r(n)
RawNew(r, n, oom) ==
    /\ ~crashed /\ ~raws[r].alive
    /\ LET c == RawMemory_New(Ctx(oom, 0), n)
       IN FinishRaw("RawNew", r, r, n, c, IF c.ex # "none" THEN raws ELSE [raws EXCEPT ![r] = AsRaw(c.ret, TRUE)])

\* r goes out of scope
RawDtor(r) ==
    /\ ~crashed /\ raws[r].alive
    /\ FinishRaw("RawDtor", r, r, 0, RawMemory_Destroy(Ctx(FALSE, 0), raws[r]), [raws EXCEPT ![r] = AsRaw(NullMemory, FALSE)])

\* RawMemory<T> r(std::move(s))
RawMoveCtor(r, s) ==
    /\ ~crashed /\ ~raws[r].alive /\ raws[s].alive
    /\ LET mv == RawMemory_MoveCtor(raws[s])
       IN FinishRaw("RawMoveCtor", r, s, 0, Ctx(FALSE, 0), [raws EXCEPT ![r] = AsRaw(mv.this, TRUE), ![s] = AsRaw(mv.other, TRUE)])

\* r = std::move(s)
RawMoveAssign(r, s) ==
    /\ ~crashed /\ raws[r].alive /\ raws[s].alive
    /\ LET mv == RawMemory_MoveAssign(raws[r], raws[s], r = s)
       IN FinishRaw("RawMoveAssign", r, s, 0, Ctx(FALSE, 0), [w \in RawIds |-> IF w = r THEN AsRaw(mv.this, TRUE) ELSE IF w = s THEN AsRaw(mv.other, TRUE) ELSE raws[w]])

\* r.Swap(s)
RawSwap(r, s) ==
    /\ ~crashed /\ raws[r].alive /\ raws[s].alive
    /\ LET sw == RawMemory_Swap(raws[r], raws[s])
       IN FinishRaw("RawSwap", r, s, 0, Ctx(FALSE, 0), [w \in RawIds |-> IF w = r THEN AsRaw(sw.this, TRUE) ELSE IF w = s THEN AsRaw(sw.other, TRUE) ELSE raws[w]])

\* ---------------------------------------------------------- specifications
\* The faults a call may be given: none once MaxThrows calls threw.
Faults == IF throws < MaxThrows THEN 0..MaxFault ELSE {0}
OOMs == IF throws < MaxThrows THEN BOOLEAN ELSE {FALSE}

InitCommon ==
    /\ mode \in Modes
    /\ heap = [blk |-> [b \in Blocks |-> "free"], mem |-> [b \in Blocks |-> << >>]]
    /\ raws = [r \in RawIds |-> [alive |-> FALSE, buf |-> Null, cap |-> 0]]
    /\ errs = {}
    /\ crashed = FALSE
    /\ abs = NoAbs
    /\ throws = 0
    /\ last = [op |-> "init", v |-> "a", o |-> "a", arg |-> 0, ex |-> "none", ref |-> NoRef, ret |-> 0]

\* One vector, a, initially empty.
Init ==
    /\ InitCommon
    /\ hist = NoHist(FALSE)
    /\ vecs = [v \in VecIds |-> IF v = "a" THEN EmptyVector ELSE NoVector]
    /\ capLimit = [v \in VecIds |-> IF v = "a" THEN MaxCap ELSE 0]

Next ==
    \/ DefaultCtor("a")
    \/ \E n \in 0..MaxCap, oom \in OOMs, f \in Faults : SizedCtor("a", n, oom, f)
    \/ Dtor("a")
    \/ \E n \in 0..MaxCap, oom \in OOMs, f \in Faults : Reserve("a", n, oom, f)
    \/ \E n \in 0..MaxCap, oom \in OOMs, f \in Faults : Resize("a", n, oom, f)
    \/ \E x \in Values, oom \in OOMs, f \in Faults : PushBack("a", x, oom, f)
    \/ \E x \in Values, oom \in OOMs, f \in Faults : EmplaceBack("a", x, oom, f)
    \/ \E i \in 0..MaxCap, x \in Values, oom \in OOMs, f \in Faults : Emplace("a", i, x, oom, f)
    \/ \E i \in 0..MaxCap, f \in Faults : Erase("a", i, f)
    \/ PopBack("a")

Spec == Init /\ [][Next]_vars

\* Two vectors, a and b; b is constructed by one of the constructors.  The
\* element operations do not throw here; operator new may fail.
InitTwo ==
    /\ InitCommon
    /\ hist = NoHist(FALSE)
    /\ vecs = [v \in VecIds |-> IF v = "a" THEN EmptyVector ELSE NoVector]
    /\ capLimit = [v \in VecIds |-> MaxCapTwo]

NextTwo ==
    \/ \E v \in VecIds : DefaultCtor(v)
    \/ \E v \in VecIds, n \in 0..MaxCapTwo, oom \in OOMs : SizedCtor(v, n, oom, 0)
    \/ \E v \in VecIds, o \in VecIds, oom \in OOMs : CopyCtor(v, o, oom, 0)
    \/ \E v \in VecIds, o \in VecIds : MoveCtor(v, o)
    \/ \E v \in VecIds : Dtor(v)
    \/ \E v \in VecIds, n \in 0..MaxCapTwo, oom \in OOMs : Reserve(v, n, oom, 0)
    \/ \E v \in VecIds, n \in 0..MaxCapTwo, oom \in OOMs : Resize(v, n, oom, 0)
    \/ \E v \in VecIds, x \in ValuesTwo, oom \in OOMs : PushBack(v, x, oom, 0)
    \/ \E v \in VecIds, x \in ValuesTwo, oom \in OOMs : EmplaceBack(v, x, oom, 0)
    \/ \E v \in VecIds, i \in 0..MaxCapTwo, x \in ValuesTwo, oom \in OOMs : Emplace(v, i, x, oom, 0)
    \/ \E v \in VecIds, i \in 0..MaxCapTwo : Erase(v, i, 0)
    \/ \E v \in VecIds : PopBack(v)
    \/ \E v \in VecIds, i \in 0..MaxCapTwo, x \in ValuesTwo : SetAt(v, i, x, 0)
    \/ \E v \in VecIds, o \in VecIds, oom \in OOMs : CopyAssignment(v, o, oom, 0)
    \/ \E v \in VecIds, o \in VecIds : MoveAssignment(v, o)
    \/ \E v \in VecIds, o \in VecIds : Swap(v, o)

SpecTwo == InitTwo /\ [][NextTwo]_vars

\* Stand-alone RawMemory objects, r and s; no vector.
InitRaw ==
    /\ InitCommon
    /\ hist = NoHist(FALSE)
    /\ vecs = [v \in VecIds |-> NoVector]
    /\ capLimit = [v \in VecIds |-> 0]

NextRaw ==
    \/ \E r \in RawIds, n \in 0..MaxRawCap, oom \in OOMs : RawNew(r, n, oom)
    \/ \E r \in RawIds : RawDtor(r)
    \/ \E r \in RawIds, s \in RawIds : RawMoveCtor(r, s)
    \/ \E r \in RawIds, s \in RawIds : RawMoveAssign(r, s)
    \/ \E r \in RawIds, s \in RawIds : RawSwap(r, s)

SpecRaw == InitRaw /\ [][NextRaw]_vars

\* Runs of appends on one vector, a, with the history kept; no call throws.
InitRun ==
    /\ InitCommon
    /\ hist = NoHist(TRUE)
    /\ vecs = [v \in VecIds |-> IF v = "a" THEN EmptyVector ELSE NoVector]
    /\ capLimit = [v \in VecIds |-> IF v = "a" THEN MaxCapRun ELSE 0]

NextRun ==
    \/ \E n \in 0..MaxCapRun : Reserve("a", n, FALSE, 0)
    \/ \E x \in ValuesTwo : PushBack("a", x, FALSE, 0)
    \/ \E x \in ValuesTwo : EmplaceBack("a", x, FALSE, 0)
    \/ PopBack("a")

SpecRun == InitRun /\ [][NextRun]_vars

\* One vector, a, and calls whose argument refers to one of its elements;
\* no call throws.
NextAlias ==
    \/ \E n \in 0..MaxCap : Reserve("a", n, FALSE, 0)
    \/ \E x \in Values : PushBack("a", x, FALSE, 0)
    \/ PopBack("a")
    \/ \E i \in 0..MaxCap : PushBackRef("a", i)
    \/ \E indx \in 0..MaxCap, i \in 0..MaxCap : InsertRef("a", indx, i)

SpecAlias == Init /\ [][NextAlias]_vars

\* ------------------------------------------------------------------ claims
\* What the claims speak of.
SizeOf(v) == vecs[v].size
CapacityOf(v) == vecs[v].data.cap
BlockOf(v) == vecs[v].data.buf
LiveOf(v) == Live(vecs[v])
AddOps == {"PushBack", "EmplaceBack", "Emplace"}

\* A call of op on v that was the last step.
Called(op, v) == last.op = op /\ last.v = v

\* C1: for every sequence of PushBack, Insert, Erase and PopBack (and of the
\* other calls of the model) on an initially empty vector in which no call
\* threw, size <= capacity and the live range [0, size) is the abstract
\* sequence obtained by append, insert-at-index, remove-at-index, remove-last.
C1_Refinement ==
    \A v \in VecIds : (clean /\ vecs[v].alive) => (SizeOf(v) <= CapacityOf(v) /\ LiveOf(v) = abs[v])

\* C1's case: an Insert before the end, in place, that shifted two elements,
\* with two different values in the sequence.
C1_Witness ==
    /\ clean /\ Called("Emplace", "a") /\ last.arg = 1
    /\ abs["a"] = <<1, 2, 1, 2>> /\ LiveOf("a") = <<1, 2, 1, 2>>

\* Slots [0, size) hold constructed elements, slots [size, capacity) none.
WellFormed(V) ==
    /\ V.size <= V.data.cap
    /\ V.data.cap > 0 =>
        /\ V.data.buf # Null
        /\ Len(heap.mem[V.data.buf]) = V.data.cap
        /\ \A i \in 1..V.data.cap : (i <= V.size) <=> (heap.mem[V.data.buf][i] # Raw)

\* C2: whenever a Vector operation has returned or has propagated an
\* exception (and the process goes on), slots [0, size) of every vector's
\* storage hold constructed elements and slots [size, capacity) hold none.
C2_SlotsInvariant ==
    ~crashed => \A v \in VecIds : vecs[v].alive => WellFormed(vecs[v])

\* C3 as claimed: when a PushBack, EmplaceBack or Emplace called with
\* size == capacity throws from an element constructor, the size and the
\* value of every element of [0, size) are what they were before the call,
\* for every element type.
C3_GrowthStrongAllTypes ==
    [][\A v \in VecIds :
        (last'.op \in AddOps /\ last'.v = v /\ last'.ex = "elem" /\ CapacityOf(v) <= SizeOf(v))
            => (SizeOf(v)' = SizeOf(v) /\ LiveOf(v)' = LiveOf(v))]_vars

\* C3 as amended: the same, for every element type that is copy
\* constructible or whose move constructor cannot throw.
C3_GrowthStrong ==
    [][\A v \in VecIds :
        (mode # "move_only" /\ last'.op \in AddOps /\ last'.v = v /\ last'.ex = "elem" /\ CapacityOf(v) <= SizeOf(v))
            => (SizeOf(v)' = SizeOf(v) /\ LiveOf(v)' = LiveOf(v))]_vars

\* C3's case: a PushBack on the growth path of a copyable type whose second
\* transfer copy threw; the element constructed first in the new storage was
\* released with it.
C3_Witness ==
    /\ Called("PushBack", "a") /\ last.ex = "elem" /\ mode = "copyable"
    /\ SizeOf("a") = 2 /\ CapacityOf("a") = 2 /\ LiveOf("a") = <<1, 2>>
    /\ "element_leaked" \in errs

\* C4 as claimed: when Reserve(n) with n > capacity throws while it
\* transfers an element, the new storage is released with no element left
\* in it and the vector is unmodified: size, capacity, block and every
\* element value are what they were.
C4_ReserveStrongAllTypes ==
    [][\A v \in VecIds :
        (last'.op = "Reserve" /\ last'.v = v /\ last'.ex = "elem")
            => (vecs'[v] = vecs[v] /\ LiveOf(v)' = LiveOf(v) /\ heap' = heap /\ errs' = errs)]_vars

\* C4 as amended: the same, for every copy constructible element type (the
\* transfer copies; a move that cannot throw never fails).
C4_ReserveStrong ==
    [][\A v \in VecIds :
        (mode # "move_only" /\ last'.op = "Reserve" /\ last'.v = v /\ last'.ex = "elem")
            => (vecs'[v] = vecs[v] /\ LiveOf(v)' = LiveOf(v) /\ heap' = heap /\ errs' = errs)]_vars

\* C4's case: a Reserve of a copyable type whose second copy threw, after
\* the first was constructed in the new storage.
C4_Witness ==
    /\ Called("Reserve", "a") /\ last.ex = "elem" /\ mode = "copyable"
    /\ last.arg > CapacityOf("a") /\ LiveOf("a") = <<1, 2>>

\* Every value of the sequence q is a value of the sequence p.
AllHeldBy(q, p) == \A i \in 1..Len(q) : \E j \in 1..Len(p) : p[j] = q[i]

\* C5: when Emplace on the in-place path (size < capacity, position before
\* the end) throws, every value of the live range before the call is still
\* in the live range after it.
C5_NoElementLost ==
    [][\A v \in VecIds :
        (last'.op = "Emplace" /\ last'.v = v /\ last'.ex = "elem" /\ ~crashed'
         /\ SizeOf(v) < CapacityOf(v) /\ last'.arg < SizeOf(v))
            => AllHeldBy(LiveOf(v), LiveOf(v)')]_vars

\* The live objects that own block b.
Owners(b) == {v \in VecIds : vecs[v].alive /\ BlockOf(v) = b} \cup {r \in RawIds : raws[r].alive /\ raws[r].buf = b}
ReleaseErrors == {"interior_release", "double_release", "released_while_owned"}

\* C6: every block is released exactly once, release is applied to the base
\* address of an allocated block only, no block is released while a live
\* vector owns it, and no block stays allocated without an owner.
C6_BlockDiscipline ==
    /\ errs \cap ReleaseErrors = {}
    /\ \A b \in Blocks : heap.blk[b] = "alloc" => Owners(b) # {}
    /\ \A v \in VecIds : (vecs[v].alive /\ BlockOf(v) # Null) => heap.blk[BlockOf(v)] = "alloc"

\* C7: every allocated block has exactly one RawMemory owner until it is
\* released, and no block is released twice.
C7_RawOwnership ==
    /\ \A b \in Blocks : heap.blk[b] = "alloc" => Cardinality({r \in RawIds : raws[r].alive /\ raws[r].buf = b}) = 1
    /\ "double_release" \notin errs

MoveOps == {"MoveCtor", "MoveAssignment"}

\* C8 as claimed: after a vector o is moved into another vector v, by move construction or
\* by move assignment onto a v in any state, o has size 0 and v holds
\* exactly the elements o held, in the same order.
C8_MoveEmptiesSource ==
    [][\A v \in VecIds, o \in VecIds :
        (v # o /\ last'.op \in MoveOps /\ last'.v = v /\ last'.o = o)
            => (SizeOf(o)' = 0 /\ LiveOf(v)' = LiveOf(o))]_vars

\* C8 as amended: after a move v holds exactly the elements o held, in the
\* same order; after move construction o has size 0; after move assignment
\* o holds the elements v held before, so that its size is 0 only when v
\* was empty.
C8_Move ==
    [][\A v \in VecIds, o \in VecIds :
        (last'.op \in MoveOps /\ last'.v = v /\ last'.o = o)
            => /\ LiveOf(v)' = LiveOf(o)
               /\ last'.op = "MoveCtor" => SizeOf(o)' = 0
               /\ last'.op = "MoveAssignment" => LiveOf(o)' = LiveOf(v)]_vars

\* C8's case: a move assignment onto a destination that held elements.
C8_Witness ==
    /\ Called("MoveAssignment", "a") /\ last.o = "b"
    /\ LiveOf("a") = <<0, 1>> /\ LiveOf("b") = <<1>>

AllocatingOps == {"Reserve", "Resize", "PushBack", "EmplaceBack", "Emplace", "CopyAssignment"}

\* C9: when operator new fails inside Reserve, Resize, PushBack,
\* EmplaceBack, Emplace or copy assignment, the failure reaches the caller
\* and no vector and no block has changed: size, capacity, owned block and
\* element values are what they were.
C9_AllocFailureNoChange ==
    [][(last'.ex = "alloc" /\ last'.op \in AllocatingOps) => (vecs' = vecs /\ heap' = heap /\ errs' = errs)]_vars

\* C9's case: operator new failed in a copy assignment onto a vector that
\* holds an element and is too small for the other's two.
C9_Witness ==
    /\ Called("CopyAssignment", "a") /\ last.o = "b" /\ last.ex = "alloc"
    /\ LiveOf("a") = <<1>> /\ CapacityOf("a") = 1 /\ LiveOf("b") = <<0, 1>>

\* C10: when Resize(n) with n > capacity throws from the default
\* construction of a new element, size, capacity and every element value
\* are what they were before the call.  (With a move that cannot throw, the
\* only element operation of Resize that throws is T().)
C10_ResizeStrong ==
    [][\A v \in VecIds :
        (mode = "nothrow_move" /\ last'.op = "Resize" /\ last'.v = v /\ last'.ex = "elem" /\ last'.arg > CapacityOf(v))
            => (SizeOf(v)' = SizeOf(v) /\ CapacityOf(v)' = CapacityOf(v) /\ LiveOf(v)' = LiveOf(v))]_vars

\* The vector has the capacity and the block the last Reserve left.
AsReserved == CapacityOf("a") = hist.cap /\ BlockOf("a") = hist.blk

\* C11 as claimed: for a vector in any reachable state and any n, after
\* Reserve(n) and N <= n appends that follow it, the capacity and the block
\* are the ones the vector had right after the Reserve.
C11_ReserveThenAppendsAnyState ==
    (hist.rsv /\ hist.k <= hist.n) => AsReserved

\* C11 as amended: after Reserve(n) on a vector of size s and N appends that
\* follow it with s + N <= n, the capacity and the block are the ones the
\* vector had right after the Reserve; for a vector that was empty, any
\* N <= n appends.
C11_ReserveThenAppends ==
    (hist.rsv /\ hist.sz + hist.k <= hist.n) => AsReserved

\* C11's case: Reserve(4) on a vector of one element in a block of one
\* slot, and the three appends that fill the new block.
C11_Witness ==
    /\ hist.rsv /\ hist.n = 4 /\ hist.sz = 1 /\ hist.k = 3
    /\ hist.cap = 4 /\ SizeOf("a") = 4 /\ last.op \in AppendOps

CopyOps == {"CopyCtor", "CopyAssignment"}
MutatingOps == {"PushBack", "EmplaceBack", "Emplace", "Erase", "PopBack", "Resize", "Reserve", "SetAt"}

\* C12: after v is made a copy of another vector o, by copy construction
\* or copy assignment, the two own distinct blocks; and a mutating call
\* (PushBack, EmplaceBack, Insert, Erase, PopBack, Resize, Reserve, element
\* assignment) on one vector leaves the size, capacity, block and element
\* values of the other as they were.
C12_CopyIndependent ==
    [][/\ \A v \in VecIds, o \in VecIds :
            (v # o /\ last'.op \in CopyOps /\ last'.v = v /\ last'.o = o /\ last'.ex = "none")
                => (BlockOf(v)' = Null \/ BlockOf(v)' # BlockOf(o)')
       /\ \A v \in VecIds, w \in VecIds :
            (v # w /\ last'.op \in MutatingOps /\ last'.v = v /\ vecs[w].alive)
                => (vecs'[w] = vecs[w] /\ LiveOf(w)' = LiveOf(w))]_vars

\* C12's case: an element of a was assigned while b holds two elements, as
\* after b was copied from a; the vectors differ in that element only.
C12_Witness ==
    /\ Called("SetAt", "a") /\ last.arg = 0
    /\ vecs["b"].alive /\ BlockOf("a") # BlockOf("b")
    /\ LiveOf("a") = <<1, 1>> /\ LiveOf("b") = <<0, 1>>

\* C13: a successful copy assignment v = o with o.size <= v.capacity
\* allocates and releases nothing: v keeps its block and its capacity, ends
\* with o's size and o's elements, the slots of its block from o.size on
\* hold no element, no slot was constructed twice or assigned while raw,
\* and o and every other block are unchanged.
C13_CopyAssignInPlace ==
    [][\A v \in VecIds, o \in VecIds :
        (last'.op = "CopyAssignment" /\ last'.v = v /\ last'.o = o /\ last'.ex = "none"
         /\ SizeOf(o) <= CapacityOf(v))
            => /\ heap'.blk = heap.blk
               /\ BlockOf(v)' = BlockOf(v) /\ CapacityOf(v)' = CapacityOf(v)
               /\ SizeOf(v)' = SizeOf(o) /\ LiveOf(v)' = LiveOf(o)
               /\ \A i \in (SizeOf(o) + 1)..CapacityOf(v) : heap'.mem[BlockOf(v)][i] = Raw
               /\ \A b \in Blocks : b # BlockOf(v) => heap'.mem[b] = heap.mem[b]
               /\ vecs'[o] = vecs[o] /\ LiveOf(o)' = LiveOf(o)
               /\ errs' = errs]_vars

\* C13's case: a, with room for two elements, was assigned b's single
\* element in place; its second slot holds no element.
C13_Witness ==
    /\ Called("CopyAssignment", "a") /\ last.o = "b" /\ last.ex = "none"
    /\ CapacityOf("a") = 2 /\ LiveOf("a") = <<1>> /\ LiveOf("b") = <<1>>
    /\ heap.mem[BlockOf("a")] = <<1, Raw>>

\* C14: a successful Erase at index i of a vector of size n leaves size
\* n - 1, the elements before i as they were and the former element j + 1
\* at every index j in [i, n - 1); capacity and block do not change; the
\* position returned is i, which is end() when the last element was erased.
C14_Erase ==
    [][\A v \in VecIds :
        (last'.op = "Erase" /\ last'.v = v /\ last'.ex = "none")
            => LET i == last'.arg
                   n == SizeOf(v)
               IN /\ SizeOf(v)' = n - 1
                  /\ \A j \in 0..(i - 1) : LiveOf(v)'[j + 1] = LiveOf(v)[j + 1]
                  /\ \A j \in i..(n - 2) : LiveOf(v)'[j + 1] = LiveOf(v)[j + 2]
                  /\ CapacityOf(v)' = CapacityOf(v) /\ BlockOf(v)' = BlockOf(v)
                  /\ last'.ret = i
                  /\ i = n - 1 => last'.ret = SizeOf(v)']_vars

\* C14's case: the second of four elements was erased; the two after it
\* moved down by one.
C14_Witness ==
    /\ Called("Erase", "a") /\ last.ex = "none" /\ last.arg = 1 /\ last.ret = 1
    /\ clean /\ abs["a"] = <<1, 1, 2>> /\ LiveOf("a") = <<1, 1, 2>> /\ CapacityOf("a") = 4

\* C15: a successful Resize(n) leaves size n and the elements below
\* min(old size, n) as they were; when it grows, the elements from the old
\* size on have the default value, and the capacity is max(2 * old
\* capacity, n) if n exceeds the old capacity and the old capacity
\* otherwise; when it shrinks, exactly the slots [n, old size) lose their
\* element and the capacity and the block are the old ones.
C15_Resize ==
    [][\A v \in VecIds :
        (last'.op = "Resize" /\ last'.v = v /\ last'.ex = "none")
            => LET n == last'.arg
                   old == SizeOf(v)
                   kept == IF n < old THEN n ELSE old
               IN /\ SizeOf(v)' = n
                  /\ \A j \in 1..kept : LiveOf(v)'[j] = LiveOf(v)[j]
                  /\ \A j \in (old + 1)..n : LiveOf(v)'[j] = DefaultValue
                  /\ CapacityOf(v)' = IF n > CapacityOf(v) THEN Max2(2 * CapacityOf(v), n) ELSE CapacityOf(v)
                  /\ n <= CapacityOf(v) => BlockOf(v)' = BlockOf(v)
                  /\ \A j \in (n + 1)..old : heap'.mem[BlockOf(v)][j] = Raw
                  /\ n <= CapacityOf(v) =>
                        \A j \in (Max2(n, old) + 1)..CapacityOf(v) : heap'.mem[BlockOf(v)][j] = heap.mem[BlockOf(v)][j]
                  /\ n > CapacityOf(v) =>
                        \A j \in (n + 1)..CapacityOf(v)' : heap'.mem[BlockOf(v)'][j] = Raw]_vars

\* C15's case: Resize(3) of a vector of two elements in a block of two
\* slots: the capacity doubled and the third element has the default value.
C15_Witness ==
    /\ Called("Resize", "a") /\ last.ex = "none" /\ last.arg = 3
    /\ clean /\ LiveOf("a") = <<1, 2, 0>> /\ CapacityOf("a") = 4

\* C16: a successful PushBack, EmplaceBack or Emplace/Insert called with
\* size = capacity leaves the capacity max(1, 2 * old capacity); one called
\* with size < capacity leaves capacity and block as they were; both add
\* one to the size.
C16_AppendCapacity ==
    [][\A v \in VecIds :
        (last'.op \in AddOps /\ last'.v = v /\ last'.ex = "none")
            => /\ SizeOf(v)' = SizeOf(v) + 1
               /\ SizeOf(v) = CapacityOf(v) => CapacityOf(v)' = Max2(1, 2 * CapacityOf(v))
               /\ SizeOf(v) < CapacityOf(v) => (CapacityOf(v)' = CapacityOf(v) /\ BlockOf(v)' = BlockOf(v))]_vars

\* C16's case: the third of three appends to an empty vector found the
\* block of two slots full and left one of four.
C16_Witness ==
    /\ Called("PushBack", "a") /\ last.ex = "none" /\ clean
    /\ LiveOf("a") = <<2, 1, 2>> /\ CapacityOf("a") = 4

\* C17: in a run of N successful appends (PushBack, EmplaceBack) that
\* starts on an empty vector, the number of stored elements copied or moved
\* to new storage, counted over the whole run, is below 2 * N.
C17_AmortizedAppend ==
    hist.run => hist.moved < 2 * hist.appends

\* C17's case: five appends to a default-constructed vector reallocated
\* at the second, third and fifth and transferred 1 + 2 + 4 elements.
C17_Witness ==
    /\ hist.run /\ hist.appends = 5 /\ hist.moved = 7
    /\ SizeOf("a") = 5 /\ CapacityOf("a") = 8

ExchangeOps == {"MoveAssignment", "Swap"}

\* C18: move assignment v = std::move(o) and v.Swap(o) exchange block,
\* capacity and size of the two vectors: each ends with the block,
\* capacity, size and elements the other had; no element is constructed,
\* destroyed or assigned and no block allocated or released; on v = o the
\* vector is unchanged.
C18_Exchange ==
    [][\A v \in VecIds, o \in VecIds :
        (last'.op \in ExchangeOps /\ last'.v = v /\ last'.o = o)
            => /\ vecs'[v] = vecs[o] /\ vecs'[o] = vecs[v]
               /\ LiveOf(v)' = LiveOf(o) /\ LiveOf(o)' = LiveOf(v)
               /\ heap' = heap /\ errs' = errs /\ last'.ex = "none"]_vars

\* C18's case: a.Swap(b) of a vector of one element in a block of one slot
\* and one of two elements in a block of two.
C18_Witness ==
    /\ Called("Swap", "a") /\ last.o = "b"
    /\ LiveOf("a") = <<0, 1>> /\ CapacityOf("a") = 2
    /\ LiveOf("b") = <<1>> /\ CapacityOf("b") = 1

\* A RawMemory object has a null address exactly when its capacity is 0.
NullIffEmpty(m) == (m.buf = Null) <=> (m.cap = 0)

RawMoveOps == {"RawMoveCtor", "RawMoveAssign"}

\* C19: every live RawMemory object has a null address exactly when its
\* capacity is 0; construction with capacity 0 succeeds without a call of
\* the allocator; after a move construction or a move assignment from
\* another object the source has a null address and capacity 0 (a move
\* assignment of an object to itself leaves it as it was).
C19_RawNullIffEmpty ==
    [][/\ \A r \in RawIds : raws'[r].alive => NullIffEmpty(raws'[r])
       /\ (last'.op = "RawNew" /\ last'.arg = 0) => (heap' = heap /\ last'.ex = "none")
       /\ \A r \in RawIds, s \in RawIds :
            (last'.op \in RawMoveOps /\ last'.v = r /\ last'.o = s)
                => IF r # s THEN raws'[s].buf = Null /\ raws'[s].cap = 0 ELSE raws' = raws]_vars

\* C19's case: r = std::move(s) with s owning a block of two slots.
C19_Witness ==
    /\ last.op = "RawMoveAssign" /\ last.v = "r" /\ last.o = "s"
    /\ raws["r"].buf # Null /\ raws["r"].cap = 2
    /\ raws["s"].alive /\ raws["s"].buf = Null /\ raws["s"].cap = 0

\* C20: when the argument of PushBack or Insert is a const reference to
\* element i of the vector itself, on the growth path and on the in-place
\* path, the element inserted has the value v[i] had before the call and
\* the elements that were there keep their values and their order: the
\* live range is the old one with the old v[i] inserted at the position.
C20_SelfReference ==
    [][\A v \in VecIds :
        (last'.op \in {"PushBack", "Emplace"} /\ last'.ref # NoRef /\ last'.v = v /\ last'.ex = "none")
            => LET pos == IF last'.op = "PushBack" THEN SizeOf(v) ELSE last'.arg
               IN LiveOf(v)' = InsertAt(LiveOf(v), pos, LiveOf(v)[last'.ref + 1])]_vars

\* C20's case: v.Insert(v.begin(), v[1]) on <<1, 2, 1>> in a block of four
\* slots, the in-place path.
C20_Witness ==
    /\ Called("Emplace", "a") /\ last.arg = 0 /\ last.ref = 1 /\ last.ex = "none"
    /\ LiveOf("a") = <<2, 1, 2, 1>> /\ CapacityOf("a") = 4

====
